---- MODULE Spec2Model ----
(***************************************************************************)
(* LoopingThread: a worker thread that calls a routine periodically and is *)
(* paused, resumed and destroyed by its owner through three mutexes.       *)
(*                                                                         *)
(* The model follows the variant of the class that has pause/resume, the   *)
(* catch-up switch and the error callback (src/unnamed/part_000, lines     *)
(* 1-179), constructed with a routine.  Two threads take steps: the        *)
(* controller (constructor body, pause, resume, setPeriod, setCatchUp,     *)
(* destructor) and the worker (LoopingThread::work).  A step is one        *)
(* blocking point or one access to shared state of the source.  Time is a  *)
(* discrete steady clock that advances independently of both threads.      *)
(***************************************************************************)
EXTENDS Integers, FiniteSets, Sequences, TLC

\* ---------------------------------------------------------------- bounds
\* The steady clock stops advancing at MaxTime.
MaxTime == 2
\* Number of pause() and resume() calls the controller makes after
\* construction (the destructor is always available on top of them).
MaxCalls == 2
\* Number of setPeriod() and setCatchUp() calls the controller makes.
MaxSets == 1
\* Periods the runner is constructed with or set to, in clock units.
Periods == {1, 2}
\* Exceptions derived from std::exception a routine may throw.
StdErrors == {"e1", "e2"}
\* Values a routine may throw that are not derived from std::exception.
OtherErrors == {"x"}

\* The std::runtime_error built by the catch(...) clause.
UnknownError == "An unknown error has been thrown in a looping thread"

VARIABLES
    \* ---- members of LoopingThread
    period_,            \* current period
    catchUp_,           \* catch-up policy
    exiting_,           \* set by the destructor
    paused_,            \* controller-side lifecycle flag
    resetTimeOnPause_,  \* reset the deadline on the next worker cycle
    waitMutex_,         \* owner of the interrupt gate: "none", "ctl", "wrk"
    pauseMutex_,        \* owner of the exclusion held by the worker while it runs
    resumeMutex_,       \* owner of the pause gate
    \* ---- locals of work()
    awakenAt,           \* the wake deadline
    wpc,                \* position of the worker in work()
    \* ---- controller
    run,                \* constructor argument
    cpc,                \* position of the controller
    resetArg,           \* argument of the pause() call in progress
    thrown,             \* exception raised by the last controller call
    ncalls,             \* pause() and resume() calls made so far
    nsets,              \* setPeriod() and setCatchUp() calls made so far
    \* ---- environment
    now,                \* std::chrono::steady_clock::now()
    \* ---- memory ordering of exiting_
    dtorGate,           \* the gate the destructor released: "none", "wait", "resume"
    exitSync,           \* the worker acquired that gate after the release
    \* ---- observation of the run (history, not read by the program)
    startAt,            \* initial value of awakenAt, -1 before the worker starts
    ticks,              \* completed routine invocations
    raised,             \* what the invocation threw, "none" if nothing (kept until the next cycle)
    handlerCalls,       \* calls of errorCallback_ during the last invocation
    handled,            \* what errorCallback_ received, "none" if not called
    dtorWpc,            \* where the worker was when the destructor was called: "wait", "routine" or "other"; "none" before the call
    dtorTicks,          \* value of ticks at that call
    pauseWpc,           \* where the worker was when the pause() in force was called, "none" if not paused by pause()
    pauseTicks,         \* value of ticks at that call
    resumeDue,          \* resume time + period once resume() has returned after a pause(true) that stopped a worker that had ticked, -1 otherwise
    keepDl,             \* deadline in force when pause(false) returned, dropped (-1) by a resume() that comes after it has passed
    tickDue,            \* deadline computed after the last tick if catch-up was disabled and no pause() has been called since, -1 otherwise
    afterDue,           \* right after a tick: the pre-tick resumeDue or keepDl + period, -1 otherwise
    afterKind,          \* which of the two afterDue comes from, and the catch-up policy of that tick
    steady,             \* no pause, setPeriod or setCatchUp call so far
    setWpc              \* "wait" if the worker was in the timed wait when setPeriod() last changed the period and has neither left the wait through the gate nor finished an invocation since, "none" otherwise

prog == <<period_, catchUp_, exiting_, paused_, resetTimeOnPause_,
          waitMutex_, pauseMutex_, resumeMutex_, awakenAt, wpc,
          run, cpc, resetArg, thrown, ncalls, nsets, now, dtorGate, exitSync>>
hist == <<startAt, ticks, raised, handlerCalls, handled, dtorWpc, dtorTicks, pauseWpc, pauseTicks,
          resumeDue, keepDl, tickDue, afterDue, afterKind, steady>>
obs == <<setWpc>>
vars == <<prog, hist, obs>>

\* ------------------------------------------------------------ construction
\* State after the member initialiser list: the controller owns the pause
\* gate (resumeLock_), nobody owns the interrupt gate (waitLock_ is deferred),
\* the worker thread exists and has not run yet; the constructor body is next.
\* Variant of InitialWaitOwner in which the constructor takes the interrupt gate.
InitialWaitOwner_locked == "ctl"

\* waitLock_(waitMutex_, std::defer_lock): nobody owns the interrupt gate
\* until the first resume().
InitialWaitOwner == "none"

Init ==
    /\ period_ \in Periods
    /\ catchUp_ = TRUE
    /\ exiting_ = FALSE
    /\ paused_ = TRUE
    /\ resetTimeOnPause_ = FALSE
    /\ waitMutex_ = InitialWaitOwner
    /\ pauseMutex_ = "none"
    /\ resumeMutex_ = "ctl"
    /\ awakenAt = 0
    /\ wpc = "start"
    /\ run \in BOOLEAN
    /\ cpc = "ctor"
    /\ resetArg = FALSE
    /\ thrown = "none"
    /\ ncalls = 0
    /\ nsets = 0
    /\ now = 0
    /\ dtorGate = "none"
    /\ exitSync = FALSE
    /\ startAt = -1
    /\ ticks = 0
    /\ raised = "none"
    /\ handlerCalls = 0
    /\ handled = "none"
    /\ dtorWpc = "none"
    /\ dtorTicks = 0
    /\ pauseWpc = "none"
    /\ pauseTicks = 0
    /\ resumeDue = -1
    /\ keepDl = -1
    /\ tickDue = -1
    /\ afterDue = -1
    /\ afterKind = "none"
    /\ steady = TRUE
    /\ setWpc = "none"

\* ------------------------------------------------------------------ clock
Tick ==
    /\ now < MaxTime
    /\ now' = now + 1
    /\ UNCHANGED <<period_, catchUp_, exiting_, paused_, resetTimeOnPause_,
                   waitMutex_, pauseMutex_, resumeMutex_, awakenAt,
                   wpc, run, cpc, resetArg, thrown, ncalls, nsets, dtorGate, exitSync>>
    /\ UNCHANGED hist
    /\ UNCHANGED obs

\* ----------------------------------------------------------------- worker
\* work(): awakenAt = now(); pauseLock(pauseMutex_).
work_start ==
    /\ wpc = "start"
    /\ pauseMutex_ = "none"
    /\ awakenAt' = now
    /\ pauseMutex_' = "wrk"
    /\ wpc' = "try"
    /\ startAt' = now
    /\ UNCHANGED <<period_, catchUp_, exiting_, paused_, resetTimeOnPause_,
                   waitMutex_, resumeMutex_, run, cpc, resetArg,
                   thrown, ncalls, nsets, now, dtorGate, exitSync>>
    /\ UNCHANGED <<ticks, raised, handlerCalls, handled, dtorWpc, dtorTicks, pauseWpc, pauseTicks,
                   resumeDue, keepDl, tickDue, afterDue, afterKind, steady>>
    /\ UNCHANGED obs

\* Deadline and flag after the block that follows the lock attempt:
\* if (resetTimeOnPause_) { awakenAt = now() + period_; resetTimeOnPause_ = false; }
ResetBlock ==
    /\ awakenAt' = IF resetTimeOnPause_ THEN now + period_ ELSE awakenAt
    /\ resetTimeOnPause_' = FALSE

\* Values the worker's read of exiting_ can return.  The read is ordered after
\* the destructor's write only if the worker has acquired the gate the
\* destructor released (sync); otherwise the two accesses race and either
\* value is read.
ExitingRead(sync) ==
    IF exiting_ /\ ~sync THEN {TRUE, FALSE} ELSE {exiting_}

\* Variant of WorkerYield in which the interrupted worker keeps pauseMutex_.
WorkerYield_keep(owner) == owner

\* pauseLock.unlock() on the interruption path, or the end of work(): the
\* worker gives up pauseMutex_.
WorkerYield(owner) == "none"

\* The cycle in which the worker got waitMutex_ (interrupted = true): the
\* reset block, the release of waitMutex_ at the end of the block, then
\* if (exiting_) break; pauseLock.unlock();
\* Leaving work() releases pauseMutex_ as well.  The worker holds waitMutex_
\* only across statements that touch its own locals, resetTimeOnPause_ (which
\* pauseMutex_ protects), period_ and the clock, so taking and releasing it is
\* one step.
Interrupted ==
    /\ ResetBlock
    /\ exitSync' = (exitSync \/ dtorGate = "wait")
    /\ \E seen \in ExitingRead(exitSync') :
         wpc' = IF seen THEN "exited" ELSE "lockresume"
    /\ pauseMutex_' = WorkerYield(pauseMutex_)
    /\ UNCHANGED <<period_, catchUp_, exiting_, paused_, waitMutex_,
                   resumeMutex_, run, cpc, resetArg, thrown, ncalls, nsets,
                   now, dtorGate>>

\* The cycle in which the worker did not get waitMutex_ (interrupted =
\* false): the reset block, then the routine is invoked.
NotInterrupted ==
    /\ ResetBlock
    /\ wpc' = "routine"
    /\ UNCHANGED <<period_, catchUp_, exiting_, paused_, waitMutex_,
                   pauseMutex_, resumeMutex_, run, cpc, resetArg, thrown,
                   ncalls, nsets, now, dtorGate, exitSync>>

\* The worker position as the observation of a call records it.
Observed(w) == IF w \in {"wait", "routine"} THEN w ELSE "other"

\* Clears the observation of the previous tick at the start of a cycle.
NewCycle ==
    /\ raised' = "none"
    /\ handlerCalls' = 0
    /\ handled' = "none"
    /\ afterDue' = -1
    /\ afterKind' = "none"
    /\ setWpc' = "none"
    /\ UNCHANGED <<startAt, ticks, dtorWpc, dtorTicks, pauseWpc, pauseTicks,
                   resumeDue, keepDl, tickDue, steady>>

\* Variant of TryToLock in which the non-blocking attempt never succeeds.
TryToLock_never(owner) == FALSE

\* unique_lock lock(waitMutex_, try_to_lock) followed by lock.owns_lock().
TryToLock(owner) == owner = "none"

\* unique_lock lock(waitMutex_, try_to_lock): if the gate is free the cycle
\* is interrupted; if not, the test awakenAt >= now() decides between the
\* timed wait and an immediate tick.
work_try ==
    /\ wpc = "try"
    /\ IF TryToLock(waitMutex_)
         THEN Interrupted
         ELSE IF awakenAt >= now
                THEN /\ wpc' = "wait"
                     /\ UNCHANGED <<period_, catchUp_, exiting_, paused_,
                                    resetTimeOnPause_, waitMutex_, pauseMutex_,
                                    resumeMutex_, awakenAt, run, cpc, resetArg,
                                    thrown, ncalls, nsets, now, dtorGate,
                                    exitSync>>
                ELSE NotInterrupted
    /\ NewCycle

\* Variant of work_wait_acquire that sleeps until the deadline and only then
\* looks at the gate.
work_wait_acquire_sleep ==
    /\ wpc = "wait"
    /\ waitMutex_ = "none"
    /\ now >= awakenAt
    /\ Interrupted
    /\ UNCHANGED hist
    /\ setWpc' = "none"

\* lock.try_lock_until(awakenAt) succeeds: the gate was released.
work_wait_acquire ==
    /\ wpc = "wait"
    /\ waitMutex_ = "none"
    /\ Interrupted
    /\ UNCHANGED hist
    /\ setWpc' = "none"

\* lock.try_lock_until(awakenAt) times out: the deadline was reached with the
\* gate still held.
work_wait_timeout ==
    /\ wpc = "wait"
    /\ waitMutex_ # "none"
    /\ now >= awakenAt
    /\ NotInterrupted
    /\ UNCHANGED hist
    /\ UNCHANGED obs

\* std::unique_lock<std::mutex> lock(resumeMutex_): blocks while paused.
work_lockresume ==
    /\ wpc = "lockresume"
    /\ resumeMutex_ = "none"
    /\ resumeMutex_' = "wrk"
    /\ wpc' = "relockpause"
    /\ exitSync' = (exitSync \/ dtorGate = "resume")
    /\ UNCHANGED <<period_, catchUp_, exiting_, paused_, resetTimeOnPause_,
                   waitMutex_, pauseMutex_, awakenAt, run, cpc,
                   resetArg, thrown, ncalls, nsets, now, dtorGate>>
    /\ UNCHANGED hist
    /\ UNCHANGED obs

\* pauseLock.lock(); then the block ends and resumeMutex_ is released.
work_relockpause ==
    /\ wpc = "relockpause"
    /\ pauseMutex_ = "none"
    /\ pauseMutex_' = "wrk"
    /\ resumeMutex_' = "none"
    /\ wpc' = "try"
    /\ UNCHANGED <<period_, catchUp_, exiting_, paused_, resetTimeOnPause_,
                   waitMutex_, awakenAt, run, cpc, resetArg,
                   thrown, ncalls, nsets, now, dtorGate, exitSync>>
    /\ UNCHANGED hist
    /\ UNCHANGED obs

\* Variant of NextDeadline that measures every wait from the end of the tick.
NextDeadline_fromNow(dl, t, p, cu) == t + p

\* Variant of NextDeadline that always adds the period to the old deadline.
NextDeadline_fromDeadline(dl, t, p, cu) == dl + p

\* if (catchUp_) awakenAt += period_; else awakenAt = now() + period_;
NextDeadline(dl, t, p, cu) == IF cu THEN dl + p ELSE t + p

\* Variant of CaughtAs that reports every error as the generic one.
CaughtAs_generic(e) == UnknownError

\* What the catch clauses hand to errorCallback_: a std::exception is passed
\* on by reference, anything else is replaced by a std::runtime_error.
CaughtAs(e) == IF e \in StdErrors THEN e ELSE UnknownError

\* The end of a tick: the deadline update after the try block.
EndOfTick ==
    /\ awakenAt' = NextDeadline(awakenAt, now, period_, catchUp_)
    /\ wpc' = "try"
    /\ ticks' = ticks + 1
    /\ tickDue' = IF catchUp_ \/ paused_ THEN -1 ELSE now + period_
    /\ afterDue' = IF resumeDue >= 0 THEN resumeDue + period_
                   ELSE IF keepDl >= 0 THEN keepDl + period_ ELSE -1
    /\ afterKind' = IF resumeDue >= 0 THEN "reset"
                    ELSE IF keepDl >= 0
                           THEN (IF catchUp_ THEN "keep" ELSE "keep_nocatchup")
                           ELSE "none"
    /\ resumeDue' = -1
    /\ keepDl' = -1
    /\ UNCHANGED <<period_, catchUp_, exiting_, paused_, resetTimeOnPause_,
                   waitMutex_, pauseMutex_, resumeMutex_, run,
                   cpc, resetArg, thrown, ncalls, nsets, now, dtorGate, exitSync>>
    /\ UNCHANGED <<startAt, dtorWpc, dtorTicks, pauseWpc, pauseTicks, steady>>
    /\ setWpc' = "none"

\* routine_() returns normally.
work_routine_return ==
    /\ wpc = "routine"
    /\ EndOfTick
    /\ UNCHANGED <<raised, handlerCalls, handled>>

\* routine_() throws e and one of the catch clauses calls the handler:
\* catch (std::exception& e) { errorCallback_(e); }
\* catch (...) { errorCallback_(std::runtime_error(...)); }
\* The handler runs on the worker inside the same invocation; the invocation
\* ends when it returns.
work_routine_throw(e) ==
    /\ wpc = "routine"
    /\ raised' = e
    /\ handled' = CaughtAs(e)
    /\ handlerCalls' = handlerCalls + 1
    /\ EndOfTick

Worker ==
    \/ work_start
    \/ work_try
    \/ work_wait_acquire
    \/ work_wait_timeout
    \/ work_lockresume
    \/ work_relockpause
    \/ work_routine_return
    \/ \E e \in StdErrors \cup OtherErrors : work_routine_throw(e)

\* -------------------------------------------------------------- controller
\* resume() past its check: paused_ = false; the lock of waitMutex_ follows.
ResumeEntry ==
    /\ paused_' = FALSE
    /\ cpc' = "resume_lockwait"
    /\ thrown' = "none"
    /\ pauseWpc' = "none"
    /\ pauseTicks' = 0
    /\ UNCHANGED <<startAt, ticks, raised, handlerCalls, handled, dtorWpc,
                   dtorTicks, resumeDue, keepDl, tickDue, afterDue, afterKind, steady>>
    /\ UNCHANGED obs

\* Constructor body: if (run) resume();
ctor_body ==
    /\ cpc = "ctor"
    /\ IF run
         THEN ResumeEntry
         ELSE /\ cpc' = "idle"
              /\ UNCHANGED <<paused_, thrown>>
              /\ UNCHANGED hist
              /\ UNCHANGED obs
    /\ UNCHANGED <<period_, catchUp_, exiting_, resetTimeOnPause_, waitMutex_,
                   pauseMutex_, resumeMutex_, awakenAt, wpc, run,
                   resetArg, ncalls, nsets, now, dtorGate, exitSync>>

\* Variant of PauseRejected without the check.
PauseRejected_never == FALSE

\* pause() on a runner that is already paused.
PauseRejected == paused_
\* resume() on a runner that is not paused.
ResumeRejected == ~paused_

\* throw std::logic_error(...): the call ends at its first statement.
Reject ==
    /\ thrown' = "logic_error"
    /\ ncalls' = ncalls + 1
    /\ UNCHANGED <<period_, catchUp_, exiting_, paused_, resetTimeOnPause_,
                   waitMutex_, pauseMutex_, resumeMutex_, awakenAt,
                   wpc, run, cpc, resetArg, nsets, now, dtorGate, exitSync>>
    /\ UNCHANGED hist
    /\ UNCHANGED obs

\* Variant of PauseFlag in which pause() leaves the flag alone.
PauseFlag_unset == FALSE

\* paused_ = true in pause().
PauseFlag == TRUE

\* Variant of PauseRelease in which pause() keeps the interrupt gate.
PauseRelease_keep(owner) == owner

\* waitLock_.unlock() in pause(): the controller gives up the interrupt gate.
PauseRelease(owner) == IF owner = "ctl" THEN "none" ELSE owner

\* pause(resetTime): the check, paused_ = true, waitLock_.unlock().
\* unique_lock::unlock throws std::system_error when the lock is not owned.
call_pause(rt) ==
    /\ cpc = "idle"
    /\ ncalls < MaxCalls
    /\ IF PauseRejected
         THEN Reject
         ELSE /\ paused_' = PauseFlag
              /\ ncalls' = ncalls + 1
              /\ resetArg' = rt
              /\ IF waitMutex_ = "ctl"
                   THEN /\ waitMutex_' = PauseRelease(waitMutex_)
                        /\ cpc' = "pause_lockresume"
                        /\ thrown' = "none"
                   ELSE /\ thrown' = "system_error"
                        /\ UNCHANGED <<waitMutex_, cpc>>
              /\ pauseWpc' = Observed(wpc)
              /\ pauseTicks' = ticks
              /\ steady' = FALSE
              /\ resumeDue' = -1
              /\ keepDl' = -1
              /\ tickDue' = -1
              /\ UNCHANGED <<afterDue, afterKind>>
              /\ UNCHANGED obs
              /\ UNCHANGED <<period_, catchUp_, exiting_, resetTimeOnPause_,
                             pauseMutex_, resumeMutex_, awakenAt,
                             wpc, run, nsets, now, dtorGate, exitSync>>
              /\ UNCHANGED <<startAt, ticks, raised, handlerCalls, handled, dtorWpc, dtorTicks>>

\* pause(): resumeLock_.lock().
pause_lockresume ==
    /\ cpc = "pause_lockresume"
    /\ resumeMutex_ = "none"
    /\ resumeMutex_' = "ctl"
    /\ cpc' = "pause_lockpause"
    /\ UNCHANGED <<period_, catchUp_, exiting_, paused_, resetTimeOnPause_,
                   waitMutex_, pauseMutex_, awakenAt, wpc, run,
                   resetArg, thrown, ncalls, nsets, now, dtorGate, exitSync>>
    /\ UNCHANGED hist
    /\ UNCHANGED obs

\* Variant of PauseHandshake that does not wait for pauseMutex_.
PauseHandshake_skip(owner) == TRUE

\* unique_lock pauseLock(pauseMutex_) in pause() returns once the worker has
\* given up pauseMutex_.
PauseHandshake(owner) == owner = "none"

\* Variant of PauseResetFlag that ignores the argument of pause().
PauseResetFlag_always(rt) == TRUE

\* resetTimeOnPause_ = resetTime.
PauseResetFlag(rt) == rt

\* pause(): unique_lock pauseLock(pauseMutex_); resetTimeOnPause_ = resetTime;
\* and the return, which releases pauseMutex_.
pause_lockpause ==
    /\ cpc = "pause_lockpause"
    /\ PauseHandshake(pauseMutex_)
    /\ resetTimeOnPause_' = PauseResetFlag(resetArg)
    /\ cpc' = "idle"
    /\ resetArg' = FALSE
    /\ keepDl' = IF ~resetArg /\ wpc # "start" THEN awakenAt ELSE -1
    /\ UNCHANGED <<period_, catchUp_, exiting_, paused_, waitMutex_,
                   pauseMutex_, resumeMutex_, awakenAt, wpc, run,
                   thrown, ncalls, nsets, now, dtorGate, exitSync>>
    /\ UNCHANGED <<startAt, ticks, raised, handlerCalls, handled, dtorWpc, dtorTicks,
                   pauseWpc, pauseTicks, resumeDue, tickDue, afterDue, afterKind, steady>>
    /\ UNCHANGED obs

\* resume(): the check and paused_ = false.
call_resume ==
    /\ cpc = "idle"
    /\ ncalls < MaxCalls
    /\ IF ResumeRejected
         THEN Reject
         ELSE /\ ResumeEntry
              /\ ncalls' = ncalls + 1
              /\ UNCHANGED <<period_, catchUp_, exiting_, resetTimeOnPause_,
                             waitMutex_, pauseMutex_, resumeMutex_, awakenAt,
                             wpc, run, resetArg, nsets, now,
                             dtorGate, exitSync>>

\* Variant of ResumeRelease in which resume() keeps the pause gate.
ResumeRelease_keep(owner) == owner

\* resumeLock_.unlock() in resume(): the controller gives up the pause gate.
ResumeRelease(owner) == IF owner = "ctl" THEN "none" ELSE owner

\* Variant of ResumeLock in which resume() does not take the interrupt gate.
ResumeLock_skip(owner) == owner

\* waitLock_.lock() in resume(): the controller owns the interrupt gate.
ResumeLock(owner) == "ctl"

\* resume(): waitLock_.lock(); resumeLock_.unlock().
resume_lockwait ==
    /\ cpc = "resume_lockwait"
    /\ waitMutex_ = "none"
    /\ waitMutex_' = ResumeLock(waitMutex_)
    /\ resumeMutex_' = ResumeRelease(resumeMutex_)
    /\ thrown' = IF resumeMutex_ = "ctl" THEN thrown ELSE "system_error"
    /\ cpc' = "idle"
    /\ resumeDue' = IF resetTimeOnPause_ /\ wpc = "lockresume" /\ ticks > 0
                      THEN now + period_ ELSE -1
    /\ UNCHANGED <<period_, catchUp_, exiting_, paused_, resetTimeOnPause_,
                   pauseMutex_, awakenAt, wpc, run, resetArg,
                   ncalls, nsets, now, dtorGate, exitSync>>
    /\ keepDl' = IF keepDl >= 0 /\ now <= keepDl THEN keepDl ELSE -1
    /\ UNCHANGED <<startAt, ticks, raised, handlerCalls, handled, dtorWpc, dtorTicks,
                   pauseWpc, pauseTicks, tickDue, afterDue, afterKind, steady>>
    /\ UNCHANGED obs

\* Variant of SetPeriodDeadline in which setPeriod() restarts the pending wait.
SetPeriodDeadline_restart(dl, t, p) == t + p

\* The deadline after setPeriod(): awakenAt is a local of work() and the call
\* writes period_ only.
SetPeriodDeadline(dl, t, p) == dl

\* setPeriod(newPeriod): period_ = newPeriod.
call_setPeriod(p) ==
    /\ cpc = "idle"
    /\ nsets < MaxSets
    /\ period_' = p
    /\ awakenAt' = SetPeriodDeadline(awakenAt, now, p)
    /\ setWpc' = IF p # period_ /\ wpc = "wait" THEN "wait" ELSE "none"
    /\ nsets' = nsets + 1
    /\ thrown' = "none"
    /\ steady' = FALSE
    /\ UNCHANGED <<catchUp_, exiting_, paused_, resetTimeOnPause_, waitMutex_,
                   pauseMutex_, resumeMutex_, wpc, run,
                   cpc, resetArg, ncalls, now, dtorGate, exitSync>>
    /\ UNCHANGED <<startAt, ticks, raised, handlerCalls, handled, dtorWpc, dtorTicks,
                   pauseWpc, pauseTicks, resumeDue, keepDl, tickDue, afterDue, afterKind>>

\* setCatchUp(catchUp): catchUp_ = catchUp.
call_setCatchUp(b) ==
    /\ cpc = "idle"
    /\ nsets < MaxSets
    /\ catchUp_' = b
    /\ nsets' = nsets + 1
    /\ thrown' = "none"
    /\ steady' = FALSE
    /\ UNCHANGED <<period_, exiting_, paused_, resetTimeOnPause_, waitMutex_,
                   pauseMutex_, resumeMutex_, awakenAt, wpc, run,
                   cpc, resetArg, ncalls, now, dtorGate, exitSync>>
    /\ UNCHANGED <<startAt, ticks, raised, handlerCalls, handled, dtorWpc, dtorTicks,
                   pauseWpc, pauseTicks, resumeDue, keepDl, tickDue, afterDue, afterKind>>
    /\ UNCHANGED obs

\* Variant of DtorGate that always releases the interrupt gate.
DtorGate_wait(p) == "wait"

\* The gate the destructor releases: if (paused_) resumeLock_ else waitLock_.
DtorGate(p) == IF p THEN "resume" ELSE "wait"

\* ~LoopingThread(): exiting_ = true and the unlock of one gate; join follows.
call_dtor ==
    /\ cpc = "idle"
    /\ exiting_' = TRUE
    /\ dtorGate' = DtorGate(paused_)
    /\ IF DtorGate(paused_) = "resume"
         THEN /\ resumeMutex_' = IF resumeMutex_ = "ctl" THEN "none" ELSE resumeMutex_
              /\ cpc' = IF resumeMutex_ = "ctl" THEN "join" ELSE "terminated"
              /\ UNCHANGED waitMutex_
         ELSE /\ waitMutex_' = IF waitMutex_ = "ctl" THEN "none" ELSE waitMutex_
              /\ cpc' = IF waitMutex_ = "ctl" THEN "join" ELSE "terminated"
              /\ UNCHANGED resumeMutex_
    /\ dtorWpc' = Observed(wpc)
    /\ dtorTicks' = ticks
    /\ UNCHANGED <<period_, catchUp_, paused_, resetTimeOnPause_, pauseMutex_,
                   awakenAt, wpc, run, resetArg, thrown, ncalls, nsets,
                   now, exitSync>>
    /\ UNCHANGED <<startAt, ticks, raised, handlerCalls, handled, pauseWpc, pauseTicks,
                   resumeDue, keepDl, tickDue, afterDue, afterKind, steady>>
    /\ UNCHANGED obs

\* Variant of JoinReady that does not wait for the worker.
JoinReady_detached(w) == TRUE

\* worker_.join() returns once work() has returned.
JoinReady(w) == w = "exited"

\* ~LoopingThread(): worker_.join() and the return.
dtor_join ==
    /\ cpc = "join"
    /\ JoinReady(wpc)
    /\ cpc' = "destroyed"
    /\ UNCHANGED <<period_, catchUp_, exiting_, paused_, resetTimeOnPause_,
                   waitMutex_, pauseMutex_, resumeMutex_, awakenAt,
                   wpc, run, resetArg, thrown, ncalls, nsets, now, dtorGate, exitSync>>
    /\ UNCHANGED hist
    /\ UNCHANGED obs

\* Steps that start a controller call.
ControllerCall ==
    \/ \E rt \in BOOLEAN : call_pause(rt)
    \/ call_resume
    \/ \E p \in Periods : call_setPeriod(p)
    \/ \E b \in BOOLEAN : call_setCatchUp(b)
    \/ call_dtor

\* Steps that continue the call in progress.
ControllerStep ==
    \/ ctor_body
    \/ pause_lockresume
    \/ pause_lockpause
    \/ resume_lockwait
    \/ dtor_join

Next == Tick \/ Worker \/ ControllerCall \/ ControllerStep

Spec == Init /\ [][Next]_vars

\* Both threads are scheduled: a thread that can take a step eventually takes
\* one.  Nothing is assumed about the clock, and the controller is not obliged
\* to make further calls.
FairSpec == Spec /\ WF_vars(Worker) /\ WF_vars(ControllerStep)

\* Both threads are scheduled, and a controller that is blocked on a mutex
\* which keeps becoming free eventually gets it, even if the worker takes
\* and releases that mutex again and again in between.  Nothing is assumed
\* about the clock.
LockFairSpec == Spec /\ WF_vars(Worker) /\ SF_vars(ControllerStep)

\* Both threads are scheduled and the clock keeps advancing (up to MaxTime).
ClockFairSpec == FairSpec /\ WF_vars(Tick)

\* -------------------------------------------------------------- sanity
TypeOK ==
    /\ period_ \in Periods
    /\ catchUp_ \in BOOLEAN /\ exiting_ \in BOOLEAN /\ paused_ \in BOOLEAN
    /\ resetTimeOnPause_ \in BOOLEAN
    /\ waitMutex_ \in {"none", "ctl", "wrk"}
    /\ pauseMutex_ \in {"none", "wrk"}
    /\ resumeMutex_ \in {"none", "ctl", "wrk"}
    /\ awakenAt \in Nat
    /\ wpc \in {"start", "try", "wait", "lockresume", "relockpause",
                "routine", "exited"}
    /\ cpc \in {"ctor", "idle", "pause_lockresume", "pause_lockpause",
                "resume_lockwait", "join", "destroyed", "terminated"}
    /\ thrown \in {"none", "logic_error", "system_error"}
    /\ ncalls \in 0..MaxCalls
    /\ nsets \in 0..MaxSets
    /\ now \in 0..MaxTime

\* ------------------------------------------------------------ properties
Destroyed == cpc = "destroyed" /\ wpc = "exited"

\* C1: when the destructor is called while the worker is blocked in the
\* timed wait, the worker leaves the wait, exits, and the destructor returns;
\* nothing is assumed about the clock, so this happens also in the runs
\* where the clock never reaches the pending deadline.
C1_PromptExit ==
    (cpc = "join" /\ dtorWpc = "wait") ~> Destroyed

\* The destructor was called during the timed wait of a runner that was never
\* paused, and has returned before the clock reached the pending deadline.
C1_Witness ==
    /\ Destroyed
    /\ dtorWpc = "wait"
    /\ steady
    /\ ticks > 0
    /\ now < awakenAt

\* C2: the destructor returns only after the worker has exited; an invocation
\* that was in progress when the destructor was called has completed by then,
\* and no invocation is in progress once the destructor has returned.
C2_DtorAfterExit ==
    cpc = "destroyed" =>
        /\ wpc = "exited"
        /\ (dtorWpc = "routine" => ticks > dtorTicks)

\* The destructor was called during an invocation and has returned.
C2_Witness ==
    /\ cpc = "destroyed"
    /\ dtorWpc = "routine"
    /\ ticks = dtorTicks + 1

\* C3: from every state in which the destructor can be called, it releases a
\* gate it owns (it never fails on the unlock) and, with both threads
\* scheduled and every invocation terminating, it returns with the worker
\* exited.
C3_DtorTerminates ==
    /\ [](cpc # "terminated")
    /\ (exiting_ ~> Destroyed)

\* The destructor has returned after being called on a runner that had run
\* and that pause() had paused.
C3_Witness ==
    /\ Destroyed
    /\ dtorGate = "resume"
    /\ pauseWpc # "none"
    /\ ticks > 0

\* C4: between the return of pause() and the next resume() no invocation is
\* in progress, and an invocation that was in progress when pause() was
\* called has completed before pause() returned.
C4_PausedNoRoutine ==
    (paused_ /\ cpc = "idle") =>
        /\ wpc # "routine"
        /\ (pauseWpc = "routine" => ticks > pauseTicks)

\* pause() was called during an invocation and has returned.
C4_Witness ==
    /\ paused_
    /\ cpc = "idle"
    /\ pauseWpc = "routine"
    /\ ticks = pauseTicks + 1

\* C5: after pause(true) and resume() the next invocation begins no earlier
\* than the time of resume() + period, and the deadline computed after it is
\* one period later than that.
C5_ResetOnResume ==
    /\ (wpc = "routine" /\ resumeDue >= 0) => now >= resumeDue
    /\ (afterKind = "reset") => awakenAt = afterDue

FailedTickEnds == wpc = "routine" /\ wpc' = "try" /\ raised' # "none"
\* The step that ends a tick on which the routine returned.
GoodTickEnds == wpc = "routine" /\ wpc' = "try" /\ raised' = "none"

\* The worker goes on as after a successful tick: next cycle, deadline from
\* the catch-up policy, tick counted, exclusion still held.
GoesOnAsAfterSuccess ==
    /\ wpc' = "try"
    /\ awakenAt' = (IF catchUp_ THEN awakenAt + period_ ELSE now + period_)
    /\ ticks' = ticks + 1
    /\ pauseMutex_' = "wrk"

\* C7 as stated: the handler is called exactly once per failing tick, with
\* the very error the routine raised, and never on a successful tick; the
\* worker goes on as after a successful tick.
C7_HandlerGetsRaised ==
    [][ /\ FailedTickEnds =>
             (handlerCalls' = 1 /\ handled' = raised' /\ GoesOnAsAfterSuccess)
        /\ GoodTickEnds =>
             (handlerCalls' = 0 /\ handled' = "none" /\ GoesOnAsAfterSuccess) ]_vars

\* C7: the handler is called exactly once per failing tick, with the error
\* raised if it is a std::exception and with the generic runtime_error
\* otherwise, and never on a successful tick; the worker goes on as after a
\* successful tick.
C7_HandlerOncePerFailure ==
    [][ /\ FailedTickEnds =>
             /\ handlerCalls' = 1
             /\ raised' \in StdErrors => handled' = raised'
             /\ raised' \notin StdErrors => handled' = UnknownError
             /\ GoesOnAsAfterSuccess
        /\ GoodTickEnds =>
             (handlerCalls' = 0 /\ handled' = "none" /\ GoesOnAsAfterSuccess) ]_vars

\* At least two invocations have completed; the last one raised a
\* std::exception, which has just been reported, and the worker is at its
\* next cycle.
C7_Witness ==
    /\ wpc = "try"
    /\ raised \in StdErrors
    /\ handled = raised
    /\ handlerCalls = 1
    /\ ticks >= 2

\* Program state a rejected call must leave alone.
Untouched ==
    UNCHANGED <<paused_, waitMutex_, resumeMutex_, pauseMutex_,
                resetTimeOnPause_, exiting_, period_, catchUp_, awakenAt,
                wpc, cpc>>

\* C8: pause() on a paused runner and resume() on a runner that is not
\* paused raise std::logic_error and leave flags, gates and worker as they
\* were.
C8_MisuseRejected ==
    [][ /\ ((\E rt \in BOOLEAN : call_pause(rt)) /\ paused_) =>
             (thrown' = "logic_error" /\ Untouched)
        /\ (call_resume /\ ~paused_) =>
             (thrown' = "logic_error" /\ Untouched) ]_vars

\* pause() has just been rejected on a runner constructed with run = false
\* and never resumed.
C8_Witness ==
    /\ thrown = "logic_error"
    /\ ~run
    /\ paused_
    /\ ncalls = 1
    /\ wpc = "lockresume"

\* C9: on a runner that was never paused and whose period and catch-up
\* policy were never set (catch-up enabled), the deadline is always the
\* start time + completed ticks * period; an invocation runs only once its
\* deadline is reached, and the worker enters the timed wait only with a
\* deadline that is not in the past.
C9_CatchUpCadence ==
    /\ [](steady /\ startAt >= 0 => awakenAt = startAt + ticks * period_)
    /\ [](steady /\ wpc = "routine" => now >= awakenAt)
    /\ [][steady /\ wpc = "try" /\ wpc' = "wait" => awakenAt >= now]_vars
    /\ [][steady /\ wpc = "try" /\ wpc' = "routine" => awakenAt < now]_vars

\* The worker has fallen behind: its second invocation, due one period after
\* the start, is running two periods after the start.
C9_Witness ==
    /\ steady
    /\ wpc = "routine"
    /\ ticks = 1
    /\ awakenAt = startAt + period_
    /\ now = startAt + 2 * period_

\* C10: a tick that ends with catch-up disabled sets the deadline to the
\* current time + the current period, and unless a pause() follows, the next
\* invocation does not begin before that deadline.
C10_NoCatchUpFromFinish ==
    /\ [][(wpc = "routine" /\ wpc' = "try" /\ ~catchUp_)
            => awakenAt' = now + period_]_vars
    /\ [](wpc = "routine" /\ tickDue >= 0 => now >= tickDue)
    /\ [](tickDue >= 0 /\ wpc # "routine" => awakenAt = tickDue)

\* An invocation that started late and took time has been followed, one
\* period after its end, by the next invocation.
C10_Witness ==
    /\ ~catchUp_
    /\ wpc = "routine"
    /\ tickDue >= 0
    /\ now = tickDue
    /\ tickDue > startAt + ticks * period_

\* C11: setPeriod() leaves the worker's deadline as it is; the deadline of a
\* timed wait in progress never changes and the pending tick fires only once
\* that deadline is reached; the deadline computed at the end of an
\* invocation uses the period in force at that moment, which is the new one
\* if setPeriod() was called during the invocation.
C11_SetPeriodFrame ==
    /\ [][(\E p \in Periods : call_setPeriod(p)) => awakenAt' = awakenAt]_vars
    /\ [][wpc = "wait" /\ wpc' = "wait" => awakenAt' = awakenAt]_vars
    /\ [][wpc = "wait" /\ wpc' = "routine" => now >= awakenAt]_vars
    /\ [][wpc = "routine" /\ wpc' = "try" =>
            awakenAt' = (IF catchUp_ THEN awakenAt + period_ ELSE now + period_)]_vars

\* The period was changed from 1 to 2 during the wait for the second
\* invocation, which is running and began at start + 1.
C11_Witness ==
    /\ setWpc = "wait"
    /\ wpc = "routine"
    /\ period_ = 2
    /\ ticks = 1
    /\ awakenAt = startAt + 1
    /\ now = awakenAt

\* C12: a runner that has never been resumed (paused, and not by pause())
\* has invoked the routine no time and is not invoking it, wherever the
\* worker is; and when the constructor returns the runner is paused exactly
\* if it was constructed with run = false, the controller owning the
\* interrupt gate otherwise.
C12_NoTickBeforeResume ==
    /\ [](paused_ /\ pauseWpc = "none" => ticks = 0 /\ wpc # "routine")
    /\ [][cpc # "idle" /\ cpc' = "idle" /\ ncalls' = 0 =>
            (paused_' = ~run /\ (run => waitMutex_' = "ctl"))]_vars

\* A runner constructed with run = false and never resumed: more than one
\* period after the worker started it is blocked on the pause gate and the
\* routine has not been invoked.
C12_Witness ==
    /\ ~run
    /\ paused_
    /\ pauseWpc = "none"
    /\ cpc = "idle"
    /\ wpc = "lockresume"
    /\ startAt >= 0
    /\ now > startAt + period_
    /\ ticks = 0

\* C13: once resume() (or the constructor with run = true) has returned, the
\* worker eventually invokes the routine, with both threads scheduled and the
\* clock advancing, unless a pause() or the destructor comes first; the only
\* other outcome is the timed wait on a deadline that lies beyond the last
\* instant of the clock.  The worker may be anywhere when resume() returns:
\* blocked on the pause gate, or not there yet.
C13_ResumeNotLost ==
    (cpc = "idle" /\ ~paused_ /\ ~exiting_)
        ~> \/ wpc = "routine"
           \/ wpc = "wait" /\ awakenAt > MaxTime
           \/ paused_
           \/ exiting_

\* The routine is running again after a pause(true) and a resume() that found
\* the worker blocked on the pause gate.
C13_Witness ==
    /\ wpc = "routine"
    /\ resumeDue >= 0
    /\ ~paused_
    /\ ~exiting_
    /\ cpc = "idle"

Lifecycle ==
    IF exiting_ THEN "exiting" ELSE IF paused_ THEN "paused" ELSE "active"

\* The worker is at std::unique_lock lock(resumeMutex_) and the controller
\* owns that mutex.
BlockedOnPauseGate == wpc = "lockresume" /\ resumeMutex_ = "ctl"

\* C15 as stated: exiting_ and paused_ are never both set, and the worker is
\* blocked on the pause gate only while paused_ is set.
C15_FlagsExclusive ==
    /\ ~(exiting_ /\ paused_)
    /\ (BlockedOnPauseGate => paused_)

\* C15: the destructor sets exiting_ and leaves paused_ as it is, so both
\* flags are set exactly after a paused runner was destroyed (the destructor
\* released the pause gate) and the runner is then exiting; the worker is
\* blocked on the pause gate only while the runner is paused or while the
\* resume() that has cleared paused_ has not yet released the gate.
C15_LifecycleFlags ==
    /\ (exiting_ /\ paused_) = (dtorGate = "resume")
    /\ (BlockedOnPauseGate =>
            Lifecycle = "paused" \/ (Lifecycle = "active" /\ cpc = "resume_lockwait"))

\* The destructor of a runner paused by pause() has set exiting_ and released
\* the pause gate; the worker is at the gate and has not passed it yet.
C15_Witness ==
    /\ exiting_
    /\ paused_
    /\ pauseWpc # "none"
    /\ wpc = "lockresume"
    /\ resumeMutex_ = "none"
    /\ cpc = "join"

\* The interrupt gate was released during an invocation: by the pause() in
\* force, or by the destructor of a runner that was not paused.
ReleasedInRoutine ==
    \/ pauseWpc = "routine"
    \/ dtorWpc = "routine" /\ dtorGate = "wait"

\* Completed invocations at that release.
ReleasedAtTicks == IF pauseWpc = "routine" THEN pauseTicks ELSE dtorTicks

\* C16: when the interrupt gate was released during an invocation, that
\* invocation is the last one (none begins after it), the worker never enters
\* the timed wait, and the step it takes after the invocation has completed
\* is the interruption path: it exits if exiting_ is set and goes to the
\* pause gate otherwise.
C16_GateCheckedBeforeWait ==
    /\ [](ReleasedInRoutine =>
            /\ wpc # "wait"
            /\ (wpc = "routine" => ticks = ReleasedAtTicks)
            /\ ticks <= ReleasedAtTicks + 1)
    /\ [][ReleasedInRoutine /\ wpc = "try" /\ wpc' # "try" =>
            /\ ticks = ReleasedAtTicks + 1
            /\ wpc' = (IF exiting_ THEN "exited" ELSE "lockresume")]_vars

\* pause() was called during an invocation; the invocation has completed, the
\* worker has gone to the pause gate before the deadline of the next wait,
\* and pause() has not returned yet.
C16_Witness ==
    /\ pauseWpc = "routine"
    /\ wpc = "lockresume"
    /\ ticks = pauseTicks + 1
    /\ now < awakenAt
    /\ cpc \in {"pause_lockresume", "pause_lockpause"}

\* The worker's next step reads period_: the deadline update after the
\* invocation, or the reset block when resetTimeOnPause_ is set.  The worker
\* acquires no mutex the controller has released between now and that read.
PeriodReadNext ==
    \/ wpc = "routine"
    \/ wpc \in {"try", "wait"} /\ resetTimeOnPause_

\* The worker's next step reads catchUp_: the deadline update.
CatchUpReadNext == wpc = "routine"

\* The worker's step tests exiting_: a cycle that got the interrupt gate.
ReadsExiting == wpc \in {"try", "wait"} /\ wpc' \in {"exited", "lockresume"}

\* The worker's next step may read resetTimeOnPause_; it holds pauseMutex_
\* throughout.
ResetFlagReadNext == wpc \in {"try", "wait"}

\* C17: every controller write to a field the worker reads is ordered against
\* the worker's reads by a mutex: setPeriod() and setCatchUp() do not write
\* while the worker's next step reads the field, the worker tests exiting_
\* after the destructor's write only once it has acquired the gate the
\* destructor released, and pause() writes resetTimeOnPause_ only while the
\* worker cannot read it.
C17_WritesOrdered ==
    /\ [][(\E p \in Periods : call_setPeriod(p)) => ~PeriodReadNext]_vars
    /\ [][(\E b \in BOOLEAN : call_setCatchUp(b)) => ~CatchUpReadNext]_vars
    /\ [][ReadsExiting /\ exiting_ => exitSync']_vars
    /\ [][pause_lockpause => ~ResetFlagReadNext]_vars

\* C18: whenever no controller call is in progress the controller owns the
\* pause gate iff paused_ and the interrupt gate iff not paused_; no call
\* fails on the unlock of a lock the caller does not own (std::system_error
\* from pause() or resume(), std::terminate from the destructor), and neither
\* thread is ever about to lock a mutex it already owns.
C18_OneGateOwned ==
    /\ cpc = "idle" =>
          /\ (resumeMutex_ = "ctl") = paused_
          /\ (waitMutex_ = "ctl") = ~paused_
    /\ thrown # "system_error"
    /\ cpc # "terminated"
    /\ (cpc = "pause_lockresume" => resumeMutex_ # "ctl")
    /\ (cpc = "resume_lockwait" => waitMutex_ # "ctl")
    /\ (wpc \in {"start", "relockpause"} => pauseMutex_ # "wrk")
    /\ (wpc = "lockresume" => resumeMutex_ # "wrk")
    /\ (wpc \in {"try", "wait"} => waitMutex_ # "wrk")

\* A runner constructed running has been paused and resumed, both calls
\* accepted, and no call is in progress: the controller owns the interrupt
\* gate and nobody owns the pause gate.
C18_Witness ==
    /\ run
    /\ cpc = "idle"
    /\ ncalls = 2
    /\ thrown = "none"
    /\ ~paused_
    /\ waitMutex_ = "ctl"
    /\ resumeMutex_ = "none"

\* The constructor body, pause() or resume() is in progress.
InCall ==
    cpc \in {"ctor", "pause_lockresume", "pause_lockpause", "resume_lockwait"}

Begun == ticks + (IF wpc = "routine" THEN 1 ELSE 0)

\* C20: from the release of the interrupt gate by pause(), for as long as
\* that pause is in force, and from its release by the destructor, at most one
\* invocation is in progress or completes on top of those completed at the
\* release, whatever the deadline, the clock and the catch-up policy are.
C20_AtMostOneMore ==
    /\ (pauseWpc # "none" => Begun <= pauseTicks + 1)
    /\ (dtorGate = "wait" => Begun <= dtorTicks + 1)

\* pause() released the gate during an invocation of a worker that is behind
\* schedule with catch-up enabled: the invocation has completed, the deadline
\* that follows the new one has passed as well, and the worker is at the pause
\* gate with no further invocation begun.
C20_Witness ==
    /\ pauseWpc = "routine"
    /\ catchUp_
    /\ awakenAt + period_ <= now
    /\ wpc = "lockresume"
    /\ Begun = pauseTicks + 1

====
